---- MODULE Spec2Model ----
(***************************************************************************)
(* The dual-transport client runtime of openllm_client:                    *)
(*   runtimes/http.py  HTTPClientMixin, HTTPClient, AsyncHTTPClient        *)
(*   runtimes/grpc.py  GrpcClientMixin, GrpcClient, AsyncGrpcClient        *)
(*                                                                         *)
(* Python strings are sequences of one-character strings, so that split,   *)
(* urlparse and orjson.loads are computed character by character.          *)
(* Three specifications share the variables:                               *)
(*   SpecAddr  the four constructors applied to every bounded address      *)
(*   SpecMeta  the metadata accessors and postprocess on every envelope    *)
(*   SpecConn  health() on the cached connection                           *)
(***************************************************************************)
EXTENDS Integers, Sequences, FiniteSets, TLC

VARIABLES
    transport,      \* "http" | "grpc": which mixin the client has
    is_async,       \* TRUE for AsyncHTTPClient / AsyncGrpcClient
    address,        \* the constructor's address argument
    pc,             \* "new" | "constructed" | "failed" (constructor raised)
    _host,          \* self._host, Unset until assigned
    _port,          \* self._port, Unset until assigned
    base_address,   \* the address handed to super().__init__, Unset until then
    _metadata,      \* self._metadata: dict (HTTP) or struct fields map (gRPC)
    populated,      \* the envelope as the handshake populated it
    result,         \* outcome of the last accessor / postprocess call
    _cached,        \* the cached connection of the base client
    established,    \* number of connections established so far
    requests,       \* number of health requests issued on connections
    loops,          \* number of event loops asyncio.run has created and closed
    trace           \* one record per health() call, oldest first

vars == <<transport, is_async, address, pc, _host, _port, base_address,
          _metadata, populated, result,
          _cached, established, requests, loops, trace>>

addrVars == <<address, pc, _host, _port, base_address>>
metaVars == <<_metadata, populated, result>>
connVars == <<_cached, established, requests, loops, trace>>

(***************************************************************************)
(* Bounds of the model.                                                    *)
(***************************************************************************)
MaxLen == 7         \* longest address, in characters
MaxTimeout == 1     \* largest timeout (seconds) an envelope carries
MaxPairs == 2       \* most members of a configuration / reply object
MaxCalls == 3       \* most health() calls on one client

(***************************************************************************)
(* Strings.                                                                *)
(***************************************************************************)
Str_pt == <<"p", "t">>
Str_flax == <<"f", "l", "a", "x">>
Str_tf == <<"t", "f">>
Str_jax == <<"j", "a", "x">>

Letters == {"a", "b", "h", "p", "t"}
Digits == {"0", "1"}

Contains(s, c) == \E i \in 1..Len(s) : s[i] = c

\* str.find(c): index of the first occurrence, 0 when there is none
Find(s, c) ==
    IF Contains(s, c)
    THEN CHOOSE i \in 1..Len(s) : s[i] = c /\ \A j \in 1..(i-1) : s[j] # c
    ELSE 0

\* s[i:] for a 1-based i
From(s, i) == SubSeq(s, i, Len(s))

\* sub in s, for a string sub
HasSub(s, sub) ==
    \E i \in 1..(Len(s) - Len(sub) + 1) : SubSeq(s, i, i + Len(sub) - 1) = sub

(***************************************************************************)
(* Python values: k is the type; s a str's characters; n an int's value,   *)
(* or a float's value counted in halves (3 is 1.5); d a dict's items as a  *)
(* set of <<key, value>> pairs.                                            *)
(***************************************************************************)
PyStr(x) == [k |-> "str", s |-> x, n |-> 0, d |-> {}]
PyInt(i) == [k |-> "int", s |-> <<>>, n |-> i, d |-> {}]
PyFloat(h) == [k |-> "float", s |-> <<>>, n |-> h, d |-> {}]
PyDict(items) == [k |-> "dict", s |-> <<>>, n |-> 0, d |-> items]
PyNone == [k |-> "None", s |-> <<>>, n |-> 0, d |-> {}]

\* d[key] = val on a dict's items
DictPut(items, key, val) == {p \in items : p[1] # key} \cup {<<key, val>>}

(***************************************************************************)
(* google.protobuf.Value: a oneof; reading a member that is not the one    *)
(* set yields that member's default ("" or 0.0).                           *)
(***************************************************************************)
PbString(x) == [kind |-> "string_value", string_value |-> x, number_value |-> 0]
PbNumber(h) == [kind |-> "number_value", string_value |-> <<>>, number_value |-> h]
PbDefault == [kind |-> "none", string_value |-> <<>>, number_value |-> 0]

(***************************************************************************)
(* Outcomes of a call.                                                     *)
(***************************************************************************)
MalformedMsg == "Malformed service endpoint. (Possible malicious)"

\* arg holds a postprocess call's argument, as <<key, value>> pairs
Ok(op, v) == [op |-> op, status |-> "ok", msg |-> "", value |-> v, arg |-> {}]
Raise(op, exc, m) == [op |-> op, status |-> exc, msg |-> m, value |-> PyNone, arg |-> {}]
MalformedEndpoint(op) == Raise(op, "RuntimeError", MalformedMsg)
NoResult == [op |-> "none", status |-> "none", msg |-> "", value |-> PyNone, arg |-> {}]

(***************************************************************************)
(* orjson.loads on the JSON subset  value ::= digit | object,              *)
(* object ::= {} | { member (, member)* },  member ::= "letter" : digit.   *)
(* A later member with the same key replaces the earlier one. The outcome  *)
(* is [ok, val]; ok = FALSE stands for orjson.JSONDecodeError.             *)
(***************************************************************************)
Quote == "\""

DigitVal(c) == IF c = "0" THEN 0 ELSE 1

JsonFail == [ok |-> FALSE, val |-> PyNone]

RECURSIVE ParseMembers(_, _, _)
ParseMembers(s, i, items) ==
    IF /\ i + 5 <= Len(s)
       /\ s[i] = Quote /\ s[i+1] \in Letters /\ s[i+2] = Quote
       /\ s[i+3] = ":" /\ s[i+4] \in Digits
    THEN LET items2 == DictPut(items, s[i+1], PyInt(DigitVal(s[i+4])))
         IN  IF s[i+5] = "}"
             THEN IF i + 5 = Len(s)
                  THEN [ok |-> TRUE, val |-> PyDict(items2)]
                  ELSE JsonFail
             ELSE IF s[i+5] = ","
                  THEN ParseMembers(s, i + 6, items2)
                  ELSE JsonFail
    ELSE JsonFail

loads(s) ==
    IF Len(s) = 1 /\ s[1] \in Digits
    THEN [ok |-> TRUE, val |-> PyInt(DigitVal(s[1]))]
    ELSE IF Len(s) >= 2 /\ s[1] = "{"
         THEN IF s[2] = "}"
              THEN IF Len(s) = 2 THEN [ok |-> TRUE, val |-> PyDict({})] ELSE JsonFail
              ELSE ParseMembers(s, 2, {})
         ELSE JsonFail

\* return orjson.loads(v), a decode error propagating to the caller
LoadsResult(op, s) ==
    IF loads(s).ok THEN Ok(op, loads(s).val) ELSE Raise(op, "JSONDecodeError", "")

(***************************************************************************)
(* HTTPClientMixin: _metadata is a dict; a missing key raises KeyError,    *)
(* which every accessor turns into RuntimeError(MalformedMsg).             *)
(* Each accessor yields [res, md]: its outcome and _metadata afterwards.   *)
(***************************************************************************)
Http_getitem(md, op, key) ==
    IF key \in DOMAIN md THEN Ok(op, md[key]) ELSE MalformedEndpoint(op)

Http_model_name(md) == [res |-> Http_getitem(md, "model_name", "model_name"), md |-> md]

Http_model_id(md) == [res |-> Http_getitem(md, "model_id", "model_name"), md |-> md]

Http_framework(md) == [res |-> Http_getitem(md, "framework", "framework"), md |-> md]

Http_timeout(md) == [res |-> Http_getitem(md, "timeout", "timeout"), md |-> md]

Http_configuration(md) ==
    [res |-> IF "configuration" \in DOMAIN md
             THEN LoadsResult("configuration", md["configuration"].s)
             ELSE MalformedEndpoint("configuration"),
     md |-> md]

(***************************************************************************)
(* GrpcClientMixin: _metadata.json.struct_value.fields is a protobuf map   *)
(* with message values. Its __getitem__ never raises KeyError: an absent   *)
(* key is inserted with a default Value, which is returned.                *)
(***************************************************************************)
Fields_getitem(fields, key) ==
    IF key \in DOMAIN fields
    THEN [val |-> fields[key], fields |-> fields]
    ELSE [val |-> PbDefault, fields |-> fields @@ (key :> PbDefault)]

\* int(x) of a non-negative float counted in halves
IntOfFloat(h) == PyInt(h \div 2)

Grpc_model_name(md) ==
    LET g == Fields_getitem(md, "model_name")
    IN  [res |-> Ok("model_name", PyStr(g.val.string_value)), md |-> g.fields]

Grpc_framework(md) ==
    LET g == Fields_getitem(md, "framework")
        value == g.val.string_value
    IN  [res |-> IF value \notin {Str_pt, Str_flax, Str_tf}
                 THEN MalformedEndpoint("framework")
                 ELSE Ok("framework", PyStr(value)),
         md |-> g.fields]

Grpc_timeout(md) ==
    LET g == Fields_getitem(md, "timeout")
    IN  [res |-> Ok("timeout", IntOfFloat(g.val.number_value)), md |-> g.fields]

\* variant: model_id reads the model_name field, as the HTTP mixin does
Grpc_model_id_from_name(md) ==
    LET g == Fields_getitem(md, "model_name")
    IN  [res |-> Ok("model_id", PyStr(g.val.string_value)), md |-> g.fields]

Grpc_model_id(md) ==
    LET g == Fields_getitem(md, "model_id")
    IN  [res |-> Ok("model_id", PyStr(g.val.string_value)), md |-> g.fields]

Grpc_configuration(md) ==
    LET g == Fields_getitem(md, "configuration")
    IN  [res |-> LoadsResult("configuration", g.val.string_value), md |-> g.fields]

(***************************************************************************)
(* postprocess. A GenerationOutput is its fields, as <<name, value>> pairs.*)
(***************************************************************************)
GenerationOutput(kwargs) ==
    [k |-> "GenerationOutput", s |-> <<>>, n |-> 0,
     d |-> {<<key, kwargs[key]>> : key \in DOMAIN kwargs}]

Http_postprocess(r) == Ok("postprocess", GenerationOutput(r))

\* json_format.MessageToDict on one Value of a Struct: a number_value is a
\* double and comes out as a float, an unset Value as None
ValueToPy(v) ==
    IF v.kind = "string_value" THEN PyStr(v.string_value)
    ELSE IF v.kind = "number_value" THEN PyFloat(v.number_value)
    ELSE PyNone

\* MessageToDict(result.json, preserving_proto_field_name=True): the keys of
\* a Struct are map keys and are kept as they are
MessageToDict(fields) == [key \in DOMAIN fields |-> ValueToPy(fields[key])]

Grpc_postprocess(r) == Ok("postprocess", GenerationOutput(MessageToDict(r)))

(***************************************************************************)
(* The envelopes and replies a server can send (inputs of SpecMeta).       *)
(***************************************************************************)
MetaKeys == {"model_name", "model_id", "framework", "timeout", "configuration"}

ConfigKeys == {"a", "b"}

Member(p) == <<Quote, p[1], Quote, ":", p[2]>>

RECURSIVE Members(_)
Members(ps) ==
    IF Len(ps) = 0 THEN <<>>
    ELSE IF Len(ps) = 1 THEN Member(ps[1])
    ELSE Member(ps[1]) \o <<",">> \o Members(Tail(ps))

\* the JSON text of an object with the members ps, in that order
Encode(ps) == <<"{">> \o Members(ps) \o <<"}">>

PairSeqs == UNION {[1..n -> ConfigKeys \X Digits] : n \in 0..MaxPairs}

\* well-formed objects, the shortest of them cut short by a character, a
\* bare number and the empty string
ConfigTexts ==
    {Encode(ps) : ps \in PairSeqs}
        \cup {SubSeq(Encode(ps), 1, Len(Encode(ps)) - 1) :
                 ps \in {q \in PairSeqs : Len(q) <= 1}}
        \cup {<<"1">>, <<>>}

HttpAbsent == [k |-> "absent", s |-> <<>>, n |-> 0, d |-> {}]
PbAbsent == [kind |-> "absent", string_value |-> <<>>, number_value |-> 0]

\* the mapping holding the keys whose option is not the absent marker
Envelope(all, absent) == [key \in {x \in DOMAIN all : all[x] # absent} |-> all[key]]

FrameworkStrings == {Str_pt, Str_flax, Str_tf, Str_jax}

HttpEnvelopes ==
    {Envelope([model_name |-> mn, model_id |-> mi, framework |-> fw,
               timeout |-> tm, configuration |-> cf], HttpAbsent) :
        mn \in {HttpAbsent, PyStr(<<"a">>)},
        mi \in {HttpAbsent, PyStr(<<"b">>)},
        fw \in {HttpAbsent} \cup {PyStr(x) : x \in FrameworkStrings},
        tm \in {HttpAbsent} \cup {PyInt(i) : i \in 0..MaxTimeout},
        cf \in {HttpAbsent} \cup {PyStr(x) : x \in ConfigTexts}}

\* a gRPC timeout is a double: every half up to MaxTimeout + 1/2
GrpcEnvelopes ==
    {Envelope([model_name |-> mn, model_id |-> mi, framework |-> fw,
               timeout |-> tm, configuration |-> cf], PbAbsent) :
        mn \in {PbAbsent, PbString(<<"a">>)},
        mi \in {PbAbsent, PbString(<<"b">>)},
        fw \in {PbAbsent} \cup {PbString(x) : x \in FrameworkStrings},
        tm \in {PbAbsent} \cup {PbNumber(h) : h \in 0..(2 * MaxTimeout + 1)},
        cf \in {PbAbsent} \cup {PbString(x) : x \in ConfigTexts}}

ReplyFields == {"text", "responses"}

Mappings(fields, values) == UNION {[ks -> values] : ks \in SUBSET fields}

\* a JSON reply: a string or an integer per field
HttpReplies == Mappings(ReplyFields, {PyStr(<<"h">>), PyInt(1)})

\* a struct reply: a string or a double (1.0) per field
GrpcReplies == Mappings(ReplyFields, {PbString(<<"h">>), PbNumber(2)})

(***************************************************************************)
(* SpecMeta: a constructed client whose handshake populated _metadata.     *)
(***************************************************************************)
Unset == [set |-> FALSE, v |-> <<>>]
Set(x) == [set |-> TRUE, v |-> x]

NoConn == [set |-> FALSE, id |-> 0, loop |-> 0]

LocalAddress == <<"a", ":", "1">>

InitMeta ==
    /\ transport \in {"http", "grpc"}
    /\ is_async = FALSE
    /\ address = LocalAddress
    /\ pc = "constructed"
    /\ _host = Set(<<"a">>)
    /\ _port = Set(<<"1">>)
    /\ base_address = Set(LocalAddress)
    /\ _metadata \in (IF transport = "http" THEN HttpEnvelopes ELSE GrpcEnvelopes)
    /\ populated = _metadata
    /\ result = NoResult
    /\ _cached = NoConn
    /\ established = 0
    /\ requests = 0
    /\ loops = 0
    /\ trace = <<>>

\* one property read: its outcome, and _metadata as the read leaves it
Access(r) ==
    /\ result' = r.res
    /\ _metadata' = r.md
    /\ UNCHANGED <<transport, is_async, addrVars, populated, connVars>>

model_name ==
    Access(IF transport = "http" THEN Http_model_name(_metadata)
           ELSE Grpc_model_name(_metadata))

model_id ==
    Access(IF transport = "http" THEN Http_model_id(_metadata)
           ELSE Grpc_model_id(_metadata))

framework ==
    Access(IF transport = "http" THEN Http_framework(_metadata)
           ELSE Grpc_framework(_metadata))

timeout ==
    Access(IF transport = "http" THEN Http_timeout(_metadata)
           ELSE Grpc_timeout(_metadata))

configuration ==
    Access(IF transport = "http" THEN Http_configuration(_metadata)
           ELSE Grpc_configuration(_metadata))

postprocess ==
    /\ \E r \in (IF transport = "http" THEN HttpReplies ELSE GrpcReplies) :
          result' = [(IF transport = "http" THEN Http_postprocess(r)
                      ELSE Grpc_postprocess(r))
                        EXCEPT !.arg = {<<key, r[key]>> : key \in DOMAIN r}]
    /\ UNCHANGED <<transport, is_async, addrVars, _metadata, populated, connVars>>

NextMeta ==
    \/ model_name
    \/ model_id
    \/ framework
    \/ timeout
    \/ configuration
    \/ postprocess

SpecMeta == InitMeta /\ [][NextMeta]_vars

(***************************************************************************)
(* Construction: address parsing.                                          *)
(***************************************************************************)
\* address.split(sep): cut at every sep; one part more than there are seps
RECURSIVE split(_, _)
split(s, sep) ==
    IF ~Contains(s, sep) THEN <<s>>
    ELSE <<SubSeq(s, 1, Find(s, sep) - 1)>> \o split(From(s, Find(s, sep) + 1), sep)

SchemeChars == Letters \cup Digits \cup {"+", "-", "."}

NetlocEnd == {"/", "?", "#"}

\* urlparse(url).netloc: a scheme is what precedes the first colon when it
\* starts with a letter and holds scheme characters only; the netloc is what
\* follows a // that comes next, up to the first of / ? #
netloc(url) ==
    LET i == Find(url, ":")
        hasScheme == /\ i > 1
                     /\ url[1] \in Letters
                     /\ \A j \in 1..(i-1) : url[j] \in SchemeChars
        rest == IF hasScheme THEN From(url, i + 1) ELSE url
        body == From(rest, 3)
        ends == {j \in 1..Len(body) : body[j] \in NetlocEnd}
    IN  IF Len(rest) >= 2 /\ rest[1] = "/" /\ rest[2] = "/"
        THEN IF ends = {} THEN body
             ELSE SubSeq(body, 1, (CHOOSE j \in ends : \A m \in ends : j <= m) - 1)
        ELSE <<>>

\* variant: self._host = parts[0]; self._port = parts[1], one at a time
Unpack_one_by_one(parts) ==
    IF Len(parts) = 2
    THEN [raised |-> FALSE, host |-> Set(parts[1]), port |-> Set(parts[2])]
    ELSE [raised |-> TRUE, host |-> Set(parts[1]), port |-> Unset]

\* self._host, self._port = parts: the length is checked before either
\* attribute is assigned
Unpack(parts) ==
    IF Len(parts) = 2
    THEN [raised |-> FALSE, host |-> Set(parts[1]), port |-> Set(parts[2])]
    ELSE [raised |-> TRUE, host |-> Unset, port |-> Unset]

\* variant: "http://" + address, whether or not a scheme is there
Synthesize_always(addr) == <<"h", "t", "t", "p", ":", "/", "/">> \o addr

\* address if "://" in address else "http://" + address
Synthesize(addr) ==
    IF HasSub(addr, <<":", "/", "/">>) THEN addr
    ELSE <<"h", "t", "t", "p", ":", "/", "/">> \o addr

\* a constructor's body up to super().__init__: [raised, host, port, base]
Http_init(addr) ==
    LET a == Synthesize(addr)
        u == Unpack(split(netloc(a), ":"))
    IN  [raised |-> u.raised, host |-> u.host, port |-> u.port,
         base |-> IF u.raised THEN Unset ELSE Set(a)]

Grpc_init(addr) ==
    LET u == Unpack(split(addr, ":"))
    IN  [raised |-> u.raised, host |-> u.host, port |-> u.port,
         base |-> IF u.raised THEN Unset ELSE Set(addr)]

Alphabet == {"a", "1", ":", "/"}

Addresses == UNION {[1..n -> Alphabet] : n \in 0..MaxLen}

InitAddr ==
    /\ transport \in {"http", "grpc"}
    /\ is_async \in BOOLEAN
    /\ address \in Addresses
    /\ pc = "new"
    /\ _host = Unset
    /\ _port = Unset
    /\ base_address = Unset
    /\ _metadata = <<>>
    /\ populated = <<>>
    /\ result = NoResult
    /\ _cached = NoConn
    /\ established = 0
    /\ requests = 0
    /\ loops = 0
    /\ trace = <<>>

Construct(c) ==
    /\ pc = "new"
    /\ pc' = IF c.raised THEN "failed" ELSE "constructed"
    /\ _host' = c.host
    /\ _port' = c.port
    /\ base_address' = c.base
    /\ UNCHANGED <<transport, is_async, address, metaVars, connVars>>

HTTPClient_init ==
    transport = "http" /\ ~is_async /\ Construct(Http_init(address))

AsyncHTTPClient_init ==
    transport = "http" /\ is_async /\ Construct(Http_init(address))

GrpcClient_init ==
    transport = "grpc" /\ ~is_async /\ Construct(Grpc_init(address))

AsyncGrpcClient_init ==
    transport = "grpc" /\ is_async /\ Construct(Grpc_init(address))

NextAddr ==
    \/ HTTPClient_init
    \/ AsyncHTTPClient_init
    \/ GrpcClient_init
    \/ AsyncGrpcClient_init

SpecAddr == InitAddr /\ [][NextAddr]_vars

(***************************************************************************)
(* health(). The base client's _cached property yields the connection,     *)
(* establishing it on first use. What the connection's health procedure    *)
(* yields is the network's choice: a reply, or an error it raises. The     *)
(* sync clients are called from blocking code, with no event loop running; *)
(* an async client is awaited in its caller's one event loop.              *)
(*                                                                         *)
(* The gRPC connection's health procedure is a coroutine: its channel is   *)
(* an asyncio object, bound to the event loop it is first used in. loop is *)
(* that loop's number among those asyncio.run created, 0 while unbound.    *)
(***************************************************************************)
Conn(i) == [set |-> TRUE, id |-> i, loop |-> 0]

\* self._cached: [conn, est], the connection and how many exist afterwards
Cached_get(cached, est) ==
    IF cached.set THEN [conn |-> cached, est |-> est]
    ELSE [conn |-> Conn(est + 1), est |-> est + 1]

Outcomes ==
    {[status |-> st, body |-> b] :
        st \in {"ok"}, b \in {"SERVING", "NOT_SERVING"}}
      \cup {[status |-> st, body |-> ""] : st \in {"TimeoutError", "ConnectionError"}}

ServiceName == "bentoml.grpc.v1.BentoService"

LoopClosed == [status |-> "RuntimeError", body |-> "Event loop is closed"]

\* What a call in event loop `running` can yield on connection conn. Using a
\* channel from another loop than its own, one that asyncio.run has closed,
\* is outside what asyncio supports: the channel library may still serve the
\* call or raise.
RunOutcomes(conn, running) ==
    IF conn.loop \in {0, running} THEN Outcomes ELSE Outcomes \cup {LoopClosed}

\* Each health() yields [conn, issued, wire, seen, service, loops]: the
\* connection the request ran on, how many times the connection's health
\* procedure was invoked, what it yielded, what the caller gets, the service
\* asked for, and the event loops created for the call.

\* variant: a failed request is issued once more before the error is raised
HTTPClient_health_retry(conn, o) ==
    [conn |-> conn, issued |-> IF o.status = "ok" THEN 1 ELSE 2,
     wire |-> o, seen |-> o, service |-> "", loops |-> 0]

\* return self._cached.health()
HTTPClient_health_body(conn, o) ==
    [conn |-> conn, issued |-> 1, wire |-> o, seen |-> o, service |-> "", loops |-> 0]

\* return await self._cached.async_health()
AsyncHTTPClient_health_body(conn, o) ==
    [conn |-> conn, issued |-> 1, wire |-> o, seen |-> o, service |-> "", loops |-> 0]

\* return asyncio.run(self._cached.health(...)): a new event loop, `running`,
\* runs the coroutine to completion and is closed; its result or exception is
\* the call's. A channel not bound yet is bound to that loop.
GrpcClient_health_body(conn, o, running) ==
    [conn |-> [conn EXCEPT !.loop = IF @ = 0 THEN running ELSE @],
     issued |-> 1, wire |-> o, seen |-> o,
     service |-> ServiceName, loops |-> 1]

\* return await self._cached.health(...)
AsyncGrpcClient_health_body(conn, o) ==
    [conn |-> conn, issued |-> 1, wire |-> o, seen |-> o,
     service |-> ServiceName, loops |-> 0]

InitConn ==
    /\ transport \in {"http", "grpc"}
    /\ is_async \in BOOLEAN
    /\ address = LocalAddress
    /\ pc = "constructed"
    /\ _host = Set(<<"a">>)
    /\ _port = Set(<<"1">>)
    /\ base_address = Set(LocalAddress)
    /\ _metadata = <<>>
    /\ populated = <<>>
    /\ result = NoResult
    /\ \/ _cached = NoConn /\ established = 0
       \/ _cached = Conn(1) /\ established = 1
    /\ requests = 0
    /\ loops = 0
    /\ trace = <<>>

\* one health() call: h is the body applied to the cached connection
Health(c, h) ==
    /\ Len(trace) < MaxCalls
    /\ _cached' = h.conn
    /\ established' = IF h.conn.id = c.conn.id THEN c.est ELSE c.est + 1
    /\ requests' = requests + h.issued
    /\ loops' = loops + h.loops
    /\ trace' = Append(trace, h)
    /\ UNCHANGED <<transport, is_async, addrVars, metaVars>>

HTTPClient_health ==
    /\ transport = "http" /\ ~is_async
    /\ \E o \in Outcomes :
          LET c == Cached_get(_cached, established)
          IN  Health(c, HTTPClient_health_body(c.conn, o))

AsyncHTTPClient_health ==
    /\ transport = "http" /\ is_async
    /\ \E o \in Outcomes :
          LET c == Cached_get(_cached, established)
          IN  Health(c, AsyncHTTPClient_health_body(c.conn, o))

GrpcClient_health ==
    /\ transport = "grpc" /\ ~is_async
    /\ LET c == Cached_get(_cached, established)
       IN  \E o \in RunOutcomes(c.conn, loops + 1) :
              Health(c, GrpcClient_health_body(c.conn, o, loops + 1))

AsyncGrpcClient_health ==
    /\ transport = "grpc" /\ is_async
    /\ \E o \in Outcomes :
          LET c == Cached_get(_cached, established)
          IN  Health(c, AsyncGrpcClient_health_body(c.conn, o))

NextConn ==
    \/ HTTPClient_health
    \/ AsyncHTTPClient_health
    \/ GrpcClient_health
    \/ AsyncGrpcClient_health

SpecConn == InitConn /\ [][NextConn]_vars

(***************************************************************************)
(* Properties of the metadata accessors and postprocess (SpecMeta).        *)
(***************************************************************************)
\* the keys an envelope must hold: model_id on gRPC only
RequiredKeys ==
    IF transport = "http" THEN MetaKeys \ {"model_id"} ELSE MetaKeys

\* the text of a string field of the populated envelope
StoredString(key) ==
    IF transport = "http" THEN populated[key].s ELSE populated[key].string_value

\* t is the text of a JSON object: {} or { "k":d , ... , "k":d }
IsObjectText(t) ==
    \/ t = <<"{", "}">>
    \/ /\ Len(t) >= 7
       /\ (Len(t) - 1) % 6 = 0
       /\ t[1] = "{"
       /\ \A j \in 0..((Len(t) - 1) \div 6 - 1) :
             /\ t[6*j + 2] = Quote
             /\ t[6*j + 3] \in Letters
             /\ t[6*j + 4] = Quote
             /\ t[6*j + 5] = ":"
             /\ t[6*j + 6] \in Digits
             /\ t[6*j + 7] = IF 6*j + 7 = Len(t) THEN "}" ELSE ","

\* the items of the object an object text denotes: each key with the value
\* of its last member
ObjectItems(t) ==
    LET m == (Len(t) - 1) \div 6
    IN  {<<t[6*j + 3], PyInt(IF t[6*j + 6] = "1" THEN 1 ELSE 0)>> :
            j \in {i \in 0..(m - 1) :
                     \A l \in (i + 1)..(m - 1) : t[6*l + 3] # t[6*i + 3]}}

\* every required key present, framework one of the three, configuration
\* the text of a JSON object
ValidEnvelope ==
    /\ RequiredKeys \subseteq DOMAIN populated
    /\ StoredString("framework") \in {Str_pt, Str_flax, Str_tf}
    /\ IsObjectText(StoredString("configuration"))

\* the populated envelope lacks exactly the required key `key`
LacksOnly(key) ==
    /\ key \in RequiredKeys
    /\ RequiredKeys \ DOMAIN populated = {key}
    /\ "framework" \in DOMAIN populated =>
           StoredString("framework") \in {Str_pt, Str_flax, Str_tf}
    /\ "configuration" \in DOMAIN populated =>
           IsObjectText(StoredString("configuration"))

\* C1: on either transport, when the envelope lacks exactly one required key,
\* the accessor of that key fails with RuntimeError("Malformed service
\* endpoint. (Possible malicious)") and the accessor of every present key
\* returns normally. (model_id on HTTP, which has no key of its own, is left
\* out.)
C1_MissingKeyRaises ==
    \A key \in MetaKeys :
        (LacksOnly(key) /\ result.op \in RequiredKeys) =>
            IF result.op = key
            THEN result = MalformedEndpoint(key)
            ELSE result.status = "ok"

\* C2: on either transport, framework() on an envelope whose framework field
\* is outside {pt, flax, tf} fails with MalformedEndpoint, and framework()
\* never returns a value outside that set.
C2_FrameworkValidated ==
    result.op = "framework" =>
        /\ ("framework" \in DOMAIN populated
              /\ StoredString("framework") \notin {Str_pt, Str_flax, Str_tf})
               => result = MalformedEndpoint("framework")
        /\ result.status = "ok" => result.value.s \in {Str_pt, Str_flax, Str_tf}

\* C3: on a valid envelope model_name and framework return the stored string,
\* timeout the stored number (on gRPC the integer part of the stored double),
\* configuration the object its stored JSON text denotes, and model_id the
\* stored model_id on gRPC and the stored model_name on HTTP.
C3_ValidEnvelopeValues ==
    ValidEnvelope =>
        /\ result.op = "model_name" =>
               result = Ok("model_name", PyStr(StoredString("model_name")))
        /\ result.op = "framework" =>
               result = Ok("framework", PyStr(StoredString("framework")))
        /\ result.op = "model_id" =>
               result = Ok("model_id",
                           PyStr(StoredString(IF transport = "http"
                                              THEN "model_name" ELSE "model_id")))
        /\ (result.op = "timeout" /\ transport = "http") =>
               result = Ok("timeout", populated["timeout"])
        /\ (result.op = "timeout" /\ transport = "grpc") =>
               /\ result.status = "ok"
               /\ result.value.k = "int"
               /\ 2 * result.value.n <= populated["timeout"].number_value
               /\ populated["timeout"].number_value < 2 * result.value.n + 2
        /\ result.op = "configuration" =>
               result = Ok("configuration",
                           PyDict(ObjectItems(StoredString("configuration"))))

\* C3 witness: configuration() has parsed a valid gRPC envelope's text in
\* which a key occurs twice with different values
C3_Witness ==
    /\ transport = "grpc"
    /\ ValidEnvelope
    /\ result.op = "configuration"
    /\ result.status = "ok"
    /\ StoredString("configuration") = Encode(<<<<"a", "0">>, <<"a", "1">>>>)

\* C7: _metadata holds what the handshake populated, whatever accessors and
\* postprocess calls have been made.
C7_MetadataImmutable == _metadata = populated

\* the struct value that is equivalent to a JSON value
ToPb(v) ==
    IF v.k = "str" THEN PbString(v.s)
    ELSE IF v.k = "int" THEN PbNumber(2 * v.n)
    ELSE PbNumber(v.n)

\* C8: gRPC postprocess of a struct equivalent to a JSON reply r yields the
\* Generation Output that HTTP postprocess yields for r.
C8_TransportIndependent ==
    (transport = "grpc" /\ result.op = "postprocess") =>
        \A r \in HttpReplies :
            result.arg = {<<key, ToPb(r[key])>> : key \in DOMAIN r} =>
                result.value = Http_postprocess(r).value

(***************************************************************************)
(* Properties of construction (SpecAddr).                                  *)
(***************************************************************************)
HostChars == Letters \cup Digits

\* a is host:port with the colon at i: no other colon and no slash
IsHostPortAt(a, i) ==
    /\ i \in 1..Len(a)
    /\ a[i] = ":"
    /\ \A j \in (1..Len(a)) \ {i} : a[j] \in HostChars

\* a is scheme://host:port with the :// at i and the port's colon at j
IsSchemeHostPortAt(a, i, j) ==
    /\ i \in 2..(Len(a) - 3)
    /\ a[1] \in Letters
    /\ \A m \in 1..(i - 1) : a[m] \in HostChars
    /\ SubSeq(a, i, i + 2) = <<":", "/", "/">>
    /\ j \in (i + 3)..Len(a)
    /\ a[j] = ":"
    /\ \A m \in ((i + 3)..Len(a)) \ {j} : a[m] \in HostChars

\* the constructor ended normally with this host, port and base address
ConstructedWith(h, p, b) ==
    /\ pc = "constructed"
    /\ _host = Set(h)
    /\ _port = Set(p)
    /\ base_address = Set(b)

\* C4: once a constructor has run on host:port, _host = host and _port =
\* port, for the gRPC clients with the address handed on as it is and for the
\* HTTP clients with http:// put before it; and an HTTP client built from
\* scheme://host:port has the same host and port and hands the address on
\* unchanged.
C4_HostPortRoundTrip ==
    pc # "new" =>
        /\ \A i \in 1..Len(address) :
               IsHostPortAt(address, i) =>
                   ConstructedWith(SubSeq(address, 1, i - 1),
                                   SubSeq(address, i + 1, Len(address)),
                                   IF transport = "http"
                                   THEN <<"h", "t", "t", "p", ":", "/", "/">> \o address
                                   ELSE address)
        /\ \A i, j \in 1..Len(address) :
               (transport = "http" /\ IsSchemeHostPortAt(address, i, j)) =>
                   ConstructedWith(SubSeq(address, i + 3, j - 1),
                                   SubSeq(address, j + 1, Len(address)),
                                   address)

\* C4 witness: an HTTP client was built from an address with a scheme
C4_Witness ==
    /\ transport = "http"
    /\ pc = "constructed"
    /\ IsSchemeHostPortAt(address, 2, 6)
    /\ _host = Set(<<"a">>)
    /\ _port = Set(<<"1">>)

\* the address has no colon between a host and a port
NoColon ==
    \/ ~Contains(address, ":")
    \/ transport = "http" /\ ~Contains(netloc(Synthesize(address)), ":")

\* C5: a constructor run on an address with no colon (for HTTP: none in the
\* network location after scheme synthesis) has raised, before the base
\* constructor and with neither _host nor _port assigned.
C5_NoColonFailsClean ==
    (pc # "new" /\ NoColon) =>
        /\ pc = "failed"
        /\ _host = Unset
        /\ _port = Unset
        /\ base_address = Unset

\* C5 witness: an HTTP constructor has raised on a non-empty address that
\* has a host and no port
C5_Witness ==
    /\ transport = "http"
    /\ pc = "failed"
    /\ NoColon
    /\ address = <<"a", "a", "a">>

IsNumeric(p) == Len(p) > 0 /\ \A i \in 1..Len(p) : p[i] \in Digits

\* C6: a constructed client's _port is numeric: construction fails on every
\* address whose port is not a number.
C6_PortNumeric ==
    pc = "constructed" => IsNumeric(_port.v)

C10_NoRetry ==
    /\ requests = Len(trace)
    /\ \A i \in 1..Len(trace) :
           /\ trace[i].issued = 1
           /\ trace[i].seen = trace[i].wire

\* C10 witness: the second of two calls failed with a timeout
C10_Witness ==
    /\ Len(trace) = 2
    /\ trace[1].seen.status = "ok"
    /\ trace[2].wire.status = "TimeoutError"
    /\ requests = 2
====
